---- MODULE Spec2Model ----
(***************************************************************************)
(* State-machine model of the rss-collector feed pipeline:                 *)
(*   rss_collector/utils.py     parse_feed and the extractors              *)
(*   rss_collector/services.py  process_feeds (reconciliation)             *)
(*   rss_collector/tasks.py     fetch_feed, fetch_feeds_in_batches         *)
(*   rss_collector/models.py    Feed, Article                              *)
(* Instants are natural numbers (minutes); None is the absent value.       *)
(* Texts are sequences of one-character strings so that strip() is a real  *)
(* computation.                                                            *)
(***************************************************************************)
EXTENDS Integers, Sequences, FiniteSets, TLC

VARIABLES
    feeds,      \* the Feed table: feed id -> row
    upstream,   \* what an HTTP GET of each feed's url returns right now
    articles,   \* the Article table: rows in insertion order
    pool,       \* the items upstream payloads are built from (fixed per behaviour)
    now,        \* timezone.now()
    pf,         \* the process_feeds call in flight (its locals and position)
    hist,       \* history of completed runs, read only by the properties
    npub,       \* number of upstream changes so far
    ncalls,     \* number of process_feeds calls so far
    tasks,      \* the fetch_feed task instances handed to the queue
    sched,      \* what the last fetch_feeds_in_batches call did
    ops         \* how the last run of each one-shot task or view ended

vars == <<feeds, upstream, pool, articles, now, pf, hist, npub, ncalls, tasks, sched, ops>>

(* ---------------------------- bounds ----------------------------------- *)
MaxTime == 2
MaxPayload == 2
MaxCalls == 2
MaxPublish == 1
MaxTasks == 2
MaxBatchSize == 2
MaxDispatch == 1

None == 0 - 1
Time == 0..MaxTime
OptTime == Time \cup {None}

(* ---------------------------- texts ------------------------------------ *)
RECURSIVE lstrip(_)
lstrip(s) == IF s # <<>> /\ Head(s) = " " THEN lstrip(Tail(s)) ELSE s

RECURSIVE rstrip(_)
rstrip(s) == IF s # <<>> /\ s[Len(s)] = " " THEN rstrip(SubSeq(s, 1, Len(s) - 1)) ELSE s

\* str.strip()
strip(s) == rstrip(lstrip(s))

\* the members of a list
Members(l) == {l[i] : i \in 1..Len(l)}

(* ---------------------------- feeds ------------------------------------ *)
FeedIds == {1, 2}

\* models.Feed: the columns the pipeline reads or writes
FeedRow(id, name, url, ptype, freq) ==
    [id |-> id, name |-> name, url |-> url, parser_type |-> ptype,
     call_frequency |-> freq, last_fetched |-> None, next_fetch |-> None]

(* ---------------------------- upstream items --------------------------- *)
\* One <item> of a feed payload, as raw tag texts (<<>> or "" = tag absent or
\* empty).  pubDate is an instant when its text matches the feed's
\* date_format, BadDate when strptime rejects it, None when the tag is absent.
BadDate == 0 - 2
Item(link, title, pub, cats) ==
    [link |-> link, title |-> title, description |-> <<"d">>, content |-> <<>>,
     author |-> <<>>, categories |-> cats, pubDate |-> pub]

ItemA  == Item("u1", <<"a">>, 1, <<"x", "y">>)
ItemB  == Item("u1", <<"b">>, 1, <<"x", "y">>)        \* title changed
ItemW  == Item("u1", <<" ", "a">>, 1, <<"x", "y">>)   \* whitespace only
ItemL  == Item("u1", <<"a">>, 1, <<"y", "x">>)        \* categories reordered
ItemX  == Item("u1", <<"a">>, 1, <<"x">>)             \* categories changed
ItemD2 == Item("u1", <<"a">>, 2, <<"x", "y">>)        \* later date
ItemD0 == Item("u1", <<"a">>, 0, <<"x", "y">>)        \* earlier date
ItemN  == Item("u1", <<"a">>, BadDate, <<"x", "y">>)  \* unparseable date
ItemU  == Item("", <<"a">>, 1, <<"x", "y">>)          \* no link
ItemC  == Item("u2", <<"a">>, 2, <<"x", "y">>)        \* another URL

\* the sets of items an upstream feed is built from, one per behaviour
Pools == { <<ItemA, ItemB, ItemU>>,
           <<ItemA, ItemL, ItemX>>,
           <<ItemD0, ItemD2, ItemN>>,
           <<ItemA, ItemW, ItemC>> }

RECURSIVE SeqsUpTo(_, _)
SeqsUpTo(S, n) ==
    IF n = 0 THEN {<<>>}
    ELSE LET shorter == SeqsUpTo(S, n - 1)
         IN  shorter \cup {Append(s, x) : s \in {t \in shorter : Len(t) = n - 1}, x \in S}

\* an HTTP response: ok = FALSE is a network error, a timeout or a non-2xx
Response(items) == [ok |-> TRUE, items |-> items]
FetchError == [ok |-> FALSE, items |-> <<>>]
Payloads(S) == {Response(p) : p \in SeqsUpTo(S, MaxPayload)}

(* ---------------------------- extraction ------------------------------- *)
\* datetime.strptime(pub_raw, date_format) inside try/except: None on failure
ParseDate(raw) == IF raw \in Nat THEN raw ELSE None

\* clean_to_markdown on plain text
clean_to_markdown(content) == IF content = <<>> THEN <<>> ELSE strip(content)

RECURSIVE NonEmptyTexts(_)
NonEmptyTexts(l) ==
    IF l = <<>> THEN <<>>
    ELSE (IF Head(l) # "" THEN <<Head(l)>> ELSE <<>>) \o NonEmptyTexts(Tail(l))

\* the dict parse_generic_feed builds for one <item> (extract_full_content off)
GenericEntry(item) ==
    LET description == strip(item.description)
        body == IF strip(item.content) # <<>> THEN strip(item.content) ELSE description
        author == strip(item.author)
    IN  [url |-> item.link,
         title |-> strip(item.title),
         summary |-> description,
         content |-> clean_to_markdown(body),
         authors |-> IF author # <<>> THEN <<author>> ELSE <<>>,
         categories |-> NonEmptyTexts(item.categories),
         meta_keywords |-> <<>>,
         published |-> ParseDate(item.pubDate)]

NotAfterStrict(published, last_fetched) == published < last_fetched

\* utils.py:105, the comparison of the incremental cutoff
NotAfter(published, last_fetched) == published <= last_fetched

\* the filters with an undated entry dropped by a given start_date
Dropped_Undated(published, last_fetched, start_date, end_date) ==
    \/ start_date # None /\ (published = None \/ published < start_date)
    \/ end_date # None /\ published # None /\ published > end_date
    \/ /\ last_fetched # None /\ start_date = None /\ published # None
       /\ NotAfter(published, last_fetched)

\* the three `continue` filters shared by the extractors
Dropped(published, last_fetched, start_date, end_date) ==
    \/ start_date # None /\ published # None /\ published < start_date
    \/ end_date # None /\ published # None /\ published > end_date
    \/ /\ last_fetched # None /\ start_date = None /\ published # None
       /\ NotAfter(published, last_fetched)

RECURSIVE GenericEntries(_, _, _, _)
GenericEntries(items, last_fetched, start_date, end_date) ==
    IF items = <<>> THEN <<>>
    ELSE LET e == GenericEntry(Head(items))
             rest == GenericEntries(Tail(items), last_fetched, start_date, end_date)
         IN  IF Dropped(e.published, last_fetched, start_date, end_date)
             THEN rest ELSE <<e>> \o rest

\* entries[:max_entries] under `if max_entries:`
Truncate(items, max_entries) ==
    IF max_entries = None \/ max_entries = 0 THEN items
    ELSE SubSeq(items, 1, IF max_entries < Len(items) THEN max_entries ELSE Len(items))

\* the generic extractor with the truncation applied to the filtered list
parse_generic_feed_FilterFirst(response, last_fetched, max_entries, start_date, end_date) ==
    IF ~response.ok \/ response.items = <<>> THEN <<>>
    ELSE Truncate(GenericEntries(response.items, last_fetched, start_date, end_date),
                  max_entries)

parse_generic_feed(response, last_fetched, max_entries, start_date, end_date) ==
    IF ~response.ok \/ response.items = <<>> THEN <<>>
    ELSE GenericEntries(Truncate(response.items, max_entries),
                        last_fetched, start_date, end_date)

\* a url was found and the entry passes the filters
Kept(e, last_fetched, start_date, end_date) ==
    e.url # "" /\ ~Dropped(e.published, last_fetched, start_date, end_date)

\* the dict parse_json_feed builds for one item, under a field_mapping that
\* names every field of the item (utils.py:342-456)
JsonEntry(item) ==
    LET content == strip(item.content)
        summary == IF item.description # <<>> THEN item.description ELSE content
        categories == NonEmptyTexts(item.categories)
    IN  [url |-> item.link,
         title |-> strip(item.title),
         summary |-> strip(summary),
         content |-> content,
         authors |-> IF item.author # <<>> THEN <<strip(item.author)>> ELSE <<>>,
         categories |-> categories,
         meta_keywords |-> categories,
         published |-> ParseDate(item.pubDate)]

RECURSIVE JsonEntries(_, _, _, _)
JsonEntries(items, last_fetched, start_date, end_date) ==
    IF items = <<>> THEN <<>>
    ELSE LET e == JsonEntry(Head(items))
             rest == JsonEntries(Tail(items), last_fetched, start_date, end_date)
         IN  IF Kept(e, last_fetched, start_date, end_date) THEN <<e>> \o rest ELSE rest

\* parse_json_feed(feed_url, config, last_fetched, max_entries, start_date,
\* end_date) called with a url and a config
parse_json_feed(response, last_fetched, max_entries, start_date, end_date) ==
    IF ~response.ok THEN <<>>
    ELSE JsonEntries(Truncate(response.items, max_entries),
                     last_fetched, start_date, end_date)

\* the dict parse_html_feed builds for one block (extract_full_content off)
HtmlEntry(item) ==
    LET description == strip(item.description)
        body == IF strip(item.content) # <<>> THEN strip(item.content) ELSE description
        content == clean_to_markdown(body)
        author == strip(item.author)
        categories == NonEmptyTexts(item.categories)
    IN  [url |-> item.link,
         title |-> strip(item.title),
         summary |-> IF description # <<>> THEN description ELSE content,
         content |-> content,
         authors |-> IF author # <<>> THEN <<author>> ELSE <<>>,
         categories |-> categories,
         meta_keywords |-> categories,
         published |-> ParseDate(item.pubDate)]

RECURSIVE HtmlEntries(_, _, _, _)
HtmlEntries(items, last_fetched, start_date, end_date) ==
    IF items = <<>> THEN <<>>
    ELSE LET e == HtmlEntry(Head(items))
             rest == HtmlEntries(Tail(items), last_fetched, start_date, end_date)
         IN  IF Kept(e, last_fetched, start_date, end_date) THEN <<e>> \o rest ELSE rest

\* parse_html_feed: article_selector is getattr(feed, "article_selector",
\* None), absent ("" here) for a row of Feed; `if not article_selector`
parse_html_feed(article_selector, response, last_fetched, max_entries, start_date, end_date) ==
    IF ~response.ok \/ article_selector = "" \/ response.items = <<>> THEN <<>>
    ELSE HtmlEntries(Truncate(response.items, max_entries),
                     last_fetched, start_date, end_date)

\* parse_feed: the result of the strategy, or the exception it lets out.
\* json_feed is called positionally with the feed as feed_url and last_fetched
\* as config: config.get raises on a datetime; with config None the GET of the
\* feed object fails inside the try and [] is returned.  article: Feed has no
\* article_selector, so [] is returned.
parse_feed(feed, response, last_fetched, max_entries, start_date, end_date) ==
    CASE feed.parser_type = "generic" ->
            [raised |-> FALSE,
             entries |-> parse_generic_feed(response, last_fetched, max_entries,
                                            start_date, end_date)]
      [] feed.parser_type = "json_feed" ->
            [raised |-> last_fetched # None, entries |-> <<>>]
      [] feed.parser_type = "article" ->
            [raised |-> FALSE, entries |-> <<>>]
      [] OTHER -> [raised |-> TRUE, entries |-> <<>>]

(* ---------------------------- the Article table ------------------------ *)
\* Article(feed=feed, url=e["url"], ...) as built at services.py:67-79
NewArticle(feed_id, e, created) ==
    [feed |-> feed_id, url |-> e.url, title |-> e.title, content |-> e.content,
     authors |-> e.authors, categories |-> e.categories,
     meta_keywords |-> e.meta_keywords, published_at |-> e.published,
     created_at |-> created]

\* a row written earlier by another writer (admin, an older release): the
\* item's texts as they were, not stripped
StoredRow(feed_id, item) ==
    [NewArticle(feed_id, GenericEntry(item), 0) EXCEPT !.title = item.title]

HasUrl(table, url) == \E i \in 1..Len(table) : table[i].url = url

InsertAlways(table, obj) == Append(table, obj)

\* one row of INSERT ... ON CONFLICT DO NOTHING under the unique url column
InsertIgnore(table, obj) == IF HasUrl(table, obj.url) THEN table ELSE Append(table, obj)

\* Article.objects.bulk_create(objs, ignore_conflicts=True)
RECURSIVE bulk_create(_, _)
bulk_create(table, objs) ==
    IF objs = <<>> THEN table
    ELSE bulk_create(InsertIgnore(table, Head(objs)), Tail(objs))

(* ---------------------------- change detection ------------------------ *)
Differs(new_value, old_value) == new_value # old_value

\* services.py:101, the comparison of two datetimes
Later(new_value, old_value) == new_value > old_value

\* services.py:104, the comparison of two lists
ListDiffers(old_value, new_value) == old_value # new_value

\* services.py:106, the comparison of two texts
TextDiffers(old_value, new_value) == strip(old_value) # strip(new_value)

Fields == <<"title", "content", "authors", "categories", "meta_keywords", "published_at">>
ListFields == {"authors", "categories", "meta_keywords"}

\* has_changed(field, new_value) against old_value = getattr(article, field):
\* "True", "False", or "AttributeError" when (x or "").strip() meets a datetime
has_changed(field, old_value, new_value) ==
    CASE field = "published_at" ->
            IF old_value # None /\ new_value # None
            THEN (IF Later(new_value, old_value) THEN "True" ELSE "False")
            ELSE IF old_value = None /\ new_value = None THEN "False"
            ELSE "AttributeError"
      [] field \in ListFields ->
            IF ListDiffers(old_value, new_value) THEN "True" ELSE "False"
      [] OTHER ->
            IF TextDiffers(old_value, new_value) THEN "True" ELSE "False"

\* the value process_feeds pairs with each field (services.py:108-115)
EntryValue(entry, field) ==
    IF field = "published_at" THEN entry.published ELSE entry[field]

\* the loop of services.py:108-118 over one in-memory article
RECURSIVE ApplyFields(_, _, _, _)
ApplyFields(article, entry, fields, changed) ==
    IF fields = <<>> THEN [raised |-> FALSE, article |-> article, changed |-> changed]
    ELSE LET f == Head(fields)
             new_value == EntryValue(entry, f)
             r == has_changed(f, article[f], new_value)
         IN  IF r = "AttributeError"
             THEN [raised |-> TRUE, article |-> article, changed |-> changed]
             ELSE IF r = "True"
             THEN ApplyFields([article EXCEPT ![f] = new_value], entry, Tail(fields), TRUE)
             ELSE ApplyFields(article, entry, Tail(fields), changed)

\* the loop of services.py:89-121: map is existing_articles_map (url -> the
\* in-memory article and its primary key), updated is updated_articles (urls)
RECURSIVE Reconcile(_, _, _)
Reconcile(entries, map, updated) ==
    IF entries = <<>> THEN [raised |-> FALSE, map |-> map, updated |-> updated]
    ELSE LET e == Head(entries)
             r == ApplyFields(map[e.url].obj, e, Fields, FALSE)
             map2 == [map EXCEPT ![e.url].obj = r.article]
         IN  IF r.raised THEN [raised |-> TRUE, map |-> map2, updated |-> updated]
             ELSE Reconcile(Tail(entries), map2,
                            IF r.changed THEN Append(updated, e.url) ELSE updated)

\* an update that stores each written row anew
bulk_update_Recreate(table, map, updated) ==
    [i \in 1..Len(table) |->
        IF \E u \in Members(updated) : map[u].pk = i
        THEN LET o == map[CHOOSE u \in Members(updated) : map[u].pk = i].obj
             IN  [o EXCEPT !.created_at = now]
        ELSE table[i]]

\* Article.objects.bulk_update(updated_articles, [the six fields])
bulk_update(table, map, updated) ==
    [i \in 1..Len(table) |->
        IF \E u \in Members(updated) : map[u].pk = i
        THEN LET o == map[CHOOSE u \in Members(updated) : map[u].pk = i].obj
             IN  [table[i] EXCEPT !.title = o.title, !.content = o.content,
                                  !.authors = o.authors, !.categories = o.categories,
                                  !.meta_keywords = o.meta_keywords,
                                  !.published_at = o.published_at]
        ELSE table[i]]

RECURSIVE Keep(_, _)
Keep(l, S) ==
    IF l = <<>> THEN <<>>
    ELSE (IF Head(l).url \in S THEN <<Head(l)>> ELSE <<>>) \o Keep(Tail(l), S)

RECURSIVE Objects(_, _, _)
Objects(feed_id, entries, created) ==
    IF entries = <<>> THEN <<>>
    ELSE <<NewArticle(feed_id, Head(entries), created)>>
         \o Objects(feed_id, Tail(entries), created)

(* ---------------------------- process_feeds ---------------------------- *)
Callers == {"c1"}

\* one entry of feed_results; total_articles is None on the error paths
Detail(feed_id, error, added, updated, total) ==
    [feed |-> feed_id, error |-> error, added |-> added, updated |-> updated,
     total_articles |-> total]

\* the locals of a process_feeds call that has not started
Idle ==
    [pc |-> "idle", feeds |-> <<>>, i |-> 0, max_entries |-> None,
     start_date |-> None, end_date |-> None, update_last_fetched |-> FALSE,
     response |-> FetchError, db0 |-> <<>>, entries |-> <<>>, map |-> <<>>,
     new_count |-> 0, updated_count |-> 0, details |-> <<>>, total_new |-> 0,
     repeat |-> FALSE]

NoRun == [some |-> FALSE, feed |-> 0, response |-> FetchError, args |-> <<>>, db |-> <<>>]

Args(rec) == <<rec.max_entries, rec.start_date, rec.end_date, rec.update_last_fetched>>

\* feed_results.append(...) followed by the next iteration or the return
Advance(rec, detail) ==
    LET d == Append(rec.details, detail)
        next == [Idle EXCEPT !.feeds = rec.feeds, !.max_entries = rec.max_entries,
                             !.start_date = rec.start_date, !.end_date = rec.end_date,
                             !.update_last_fetched = rec.update_last_fetched,
                             !.details = d, !.total_new = rec.total_new]
    IN  IF rec.i = Len(rec.feeds)
        THEN [next EXCEPT !.pc = "returned", !.i = rec.i]
        ELSE [next EXCEPT !.pc = "loop", !.i = rec.i + 1]

\* process_feeds(feeds, max_entries, start_date, end_date, update_last_fetched):
\* entry, with the feed objects as loaded when the call starts
Call(c, feed_ids, max_entries, start_date, end_date, update_last_fetched) ==
    /\ pf[c].pc \in {"idle", "returned", "raised"}
    /\ ncalls < MaxCalls
    /\ ncalls' = ncalls + 1
    /\ pf' = [pf EXCEPT ![c] =
                [Idle EXCEPT !.pc = IF feed_ids = <<>> THEN "returned" ELSE "loop",
                             !.feeds = [k \in 1..Len(feed_ids) |-> feeds[feed_ids[k]]],
                             !.i = 1,
                             !.max_entries = max_entries,
                             !.start_date = start_date,
                             !.end_date = end_date,
                             !.update_last_fetched = update_last_fetched]]
    /\ UNCHANGED <<feeds, upstream, pool, articles, now, hist, npub, tasks, sched, ops>>

\* existing_articles_map for the urls of the entries (services.py:59-62)
ExistingMap(table, entries) ==
    LET entry_urls == {entries[k].url : k \in 1..Len(entries)} \ {""}
        found == {u \in entry_urls : HasUrl(table, u)}
    IN  [u \in found |->
            LET pk == CHOOSE i \in 1..Len(table) : table[i].url = u
            IN  [pk |-> pk, obj |-> table[pk]]]

\* services.py:26-65: validation, parse_feed and the lookup of stored articles
Extract(c) ==
    LET rec == pf[c]
        feed == rec.feeds[rec.i]
    IN  /\ rec.pc = "loop"
        /\ IF feed.name = "" \/ feed.url = ""
           THEN pf' = [pf EXCEPT ![c] = Advance(rec, Detail(feed.id, TRUE, 0, 0, None))]
           ELSE LET r == parse_feed(feed, upstream[feed.id], feed.last_fetched,
                                    rec.max_entries, rec.start_date, rec.end_date)
                IN  IF r.raised
                    THEN pf' = [pf EXCEPT ![c] =
                                  Advance(rec, Detail(feed.id, TRUE, 0, 0, None))]
                    ELSE pf' = [pf EXCEPT ![c] =
                                  [rec EXCEPT !.pc = "create",
                                              !.response = upstream[feed.id],
                                              !.db0 = articles,
                                              !.entries = r.entries,
                                              !.map = ExistingMap(articles, r.entries),
                                              !.new_count = 0,
                                              !.updated_count = 0,
                                              !.repeat =
                                                  /\ hist.last.some
                                                  /\ hist.last.feed = feed.id
                                                  /\ hist.last.response = upstream[feed.id]
                                                  /\ hist.last.args = Args(rec)
                                                  /\ hist.last.db = articles]]
        /\ UNCHANGED <<feeds, upstream, pool, articles, now, hist, npub, ncalls, tasks, sched, ops>>

\* services.py:64-86: the new entries and their bulk insert
Create(c) ==
    LET rec == pf[c]
        feed == rec.feeds[rec.i]
        new_entries == Keep(rec.entries,
                            {rec.entries[k].url : k \in 1..Len(rec.entries)}
                                \ DOMAIN rec.map)
        new_objects == Objects(feed.id, new_entries, now)
    IN  /\ rec.pc = "create"
        /\ articles' = bulk_create(articles, new_objects)
        /\ pf' = [pf EXCEPT ![c] = [rec EXCEPT !.pc = "update",
                                               !.new_count = Len(new_objects)]]
        /\ UNCHANGED <<feeds, upstream, pool, now, hist, npub, ncalls, tasks, sched, ops>>

\* a reconciliation that attaches each article it writes to the feed of the run
Update_Reassign(c) ==
    LET rec == pf[c]
        existing_entries == Keep(rec.entries, DOMAIN rec.map)
        r == Reconcile(existing_entries, rec.map, <<>>)
        written == bulk_update(articles, r.map, r.updated)
    IN  /\ rec.pc = "update"
        /\ IF r.raised
           THEN /\ pf' = [pf EXCEPT ![c] = [rec EXCEPT !.pc = "raised", !.map = r.map]]
                /\ UNCHANGED articles
           ELSE /\ articles' = [i \in 1..Len(written) |->
                                  IF written[i] # articles[i]
                                  THEN [written[i] EXCEPT !.feed = rec.feeds[rec.i].id]
                                  ELSE written[i]]
                /\ pf' = [pf EXCEPT ![c] = [rec EXCEPT !.pc = "save", !.map = r.map,
                                                       !.updated_count = Len(r.updated)]]
        /\ UNCHANGED <<feeds, upstream, pool, now, hist, npub, ncalls, tasks, sched, ops>>

\* the bookkeeping write moved before the reconciliation
Update_BookkeepingFirst(c) ==
    LET rec == pf[c]
        existing_entries == Keep(rec.entries, DOMAIN rec.map)
        r == Reconcile(existing_entries, rec.map, <<>>)
        feed == rec.feeds[rec.i]
    IN  /\ rec.pc = "update"
        /\ feeds' = IF rec.update_last_fetched
                    THEN [feeds EXCEPT ![feed.id].last_fetched = now,
                                       ![feed.id].next_fetch = now + feed.call_frequency]
                    ELSE feeds
        /\ IF r.raised
           THEN /\ pf' = [pf EXCEPT ![c] = [rec EXCEPT !.pc = "raised", !.map = r.map]]
                /\ UNCHANGED articles
           ELSE /\ articles' = bulk_update(articles, r.map, r.updated)
                /\ pf' = [pf EXCEPT ![c] = [rec EXCEPT !.pc = "save", !.map = r.map,
                                                       !.updated_count = Len(r.updated)]]
        /\ UNCHANGED <<upstream, pool, now, hist, npub, ncalls, tasks, sched, ops>>

\* services.py:88-128: change detection and the bulk update; an exception of
\* has_changed leaves process_feeds
Update(c) ==
    LET rec == pf[c]
        existing_entries == Keep(rec.entries, DOMAIN rec.map)
        r == Reconcile(existing_entries, rec.map, <<>>)
    IN  /\ rec.pc = "update"
        /\ IF r.raised
           THEN /\ pf' = [pf EXCEPT ![c] = [rec EXCEPT !.pc = "raised", !.map = r.map]]
                /\ UNCHANGED articles
           ELSE /\ articles' = bulk_update(articles, r.map, r.updated)
                /\ pf' = [pf EXCEPT ![c] = [rec EXCEPT !.pc = "save", !.map = r.map,
                                                       !.updated_count = Len(r.updated)]]
        /\ UNCHANGED <<feeds, upstream, pool, now, hist, npub, ncalls, tasks, sched, ops>>

\* the bookkeeping write without the interval
Save_NoInterval(c) ==
    LET rec == pf[c]
        feed == rec.feeds[rec.i]
    IN  /\ rec.pc = "save"
        /\ feeds' = IF rec.update_last_fetched
                    THEN [feeds EXCEPT ![feed.id].last_fetched = now,
                                       ![feed.id].next_fetch = now]
                    ELSE feeds
        /\ pf' = [pf EXCEPT ![c] =
                    Advance([rec EXCEPT !.total_new = rec.total_new + rec.new_count],
                            Detail(feed.id, FALSE, rec.new_count, rec.updated_count,
                                   Len(rec.entries)))]
        /\ hist' = [last |-> [some |-> TRUE, feed |-> feed.id, response |-> rec.response,
                              args |-> Args(rec), db |-> articles]]
        /\ UNCHANGED <<upstream, pool, articles, now, npub, ncalls, tasks, sched, ops>>

\* the bookkeeping write skipped when the feed brought no entry
Save_SkipEmpty(c) ==
    LET rec == pf[c]
        feed == rec.feeds[rec.i]
    IN  /\ rec.pc = "save"
        /\ feeds' = IF rec.update_last_fetched /\ rec.entries # <<>>
                    THEN [feeds EXCEPT ![feed.id].last_fetched = now,
                                       ![feed.id].next_fetch = now + feed.call_frequency]
                    ELSE feeds
        /\ pf' = [pf EXCEPT ![c] =
                    Advance([rec EXCEPT !.total_new = rec.total_new + rec.new_count],
                            Detail(feed.id, FALSE, rec.new_count, rec.updated_count,
                                   Len(rec.entries)))]
        /\ hist' = [last |-> [some |-> TRUE, feed |-> feed.id, response |-> rec.response,
                              args |-> Args(rec), db |-> articles]]
        /\ UNCHANGED <<upstream, pool, articles, now, npub, ncalls, tasks, sched, ops>>

\* the bookkeeping written whatever update_last_fetched is
Save_Always(c) ==
    LET rec == pf[c]
        feed == rec.feeds[rec.i]
    IN  /\ rec.pc = "save"
        /\ feeds' = [feeds EXCEPT ![feed.id].last_fetched = now,
                                  ![feed.id].next_fetch = now + feed.call_frequency]
        /\ pf' = [pf EXCEPT ![c] =
                    Advance([rec EXCEPT !.total_new = rec.total_new + rec.new_count],
                            Detail(feed.id, FALSE, rec.new_count, rec.updated_count,
                                   Len(rec.entries)))]
        /\ hist' = [last |-> [some |-> TRUE, feed |-> feed.id, response |-> rec.response,
                              args |-> Args(rec), db |-> articles]]
        /\ UNCHANGED <<upstream, pool, articles, now, npub, ncalls, tasks, sched, ops>>

\* services.py:130-142: the bookkeeping write and the feed's result
Save(c) ==
    LET rec == pf[c]
        feed == rec.feeds[rec.i]
    IN  /\ rec.pc = "save"
        /\ feeds' = IF rec.update_last_fetched
                    THEN [feeds EXCEPT ![feed.id].last_fetched = now,
                                       ![feed.id].next_fetch = now + feed.call_frequency]
                    ELSE feeds
        /\ pf' = [pf EXCEPT ![c] =
                    Advance([rec EXCEPT !.total_new = rec.total_new + rec.new_count],
                            Detail(feed.id, FALSE, rec.new_count, rec.updated_count,
                                   Len(rec.entries)))]
        /\ hist' = [last |-> [some |-> TRUE, feed |-> feed.id, response |-> rec.response,
                              args |-> Args(rec), db |-> articles]]
        /\ UNCHANGED <<upstream, pool, articles, now, npub, ncalls, tasks, sched, ops>>

(* ---------------------------- scheduled tasks -------------------------- *)
\* @shared_task(..., max_retries=3)
max_retries == 3

\* no one-shot task or view has run
NoOps == [fetch_all_feeds |-> "none", legacy_fetch_feed |-> "none",
          legacy_fetch_all_feeds |-> "none", reset_last_fetched |-> None]

NoDispatch == [status |-> "none", batches |-> <<>>, table |-> <<>>, at |-> 0, runs |-> 0]

\* feed.should_fetch(): class Feed defines schedule_next_fetch and __str__
\* only, so the attribute lookup raises AttributeError
should_fetch(feed) == "AttributeError"

\* process_feeds([feed], None, None, None, update_last_fetched=True) up to
\* its bookkeeping write, as one step of the task that calls it
RunFeed(feed, table, response, t) ==
    IF feed.name = "" \/ feed.url = ""
    THEN [raised |-> FALSE, error |-> TRUE, table |-> table, added |-> 0, updated |-> 0]
    ELSE LET r == parse_feed(feed, response, feed.last_fetched, None, None, None)
         IN  IF r.raised
             THEN [raised |-> FALSE, error |-> TRUE, table |-> table,
                   added |-> 0, updated |-> 0]
             ELSE LET map == ExistingMap(table, r.entries)
                      urls == {r.entries[k].url : k \in 1..Len(r.entries)}
                      new_objects == Objects(feed.id, Keep(r.entries, urls \ DOMAIN map), t)
                      created == bulk_create(table, new_objects)
                      rc == Reconcile(Keep(r.entries, DOMAIN map), map, <<>>)
                  IN  IF rc.raised
                      THEN [raised |-> TRUE, error |-> FALSE, table |-> created,
                            added |-> 0, updated |-> 0]
                      ELSE [raised |-> FALSE, error |-> FALSE,
                            table |-> bulk_update(created, rc.map, rc.updated),
                            added |-> Len(new_objects), updated |-> Len(rc.updated)]

\* a task instance: attempts made so far are retries + 1 once it has run
Task(feed_id, batch) ==
    [feed_id |-> feed_id, batch |-> batch, state |-> "PENDING", retries |-> 0,
     attempts |-> 0, result |-> "none"]

\* a task that fails at its first exception
Retry_Never(t, exc) ==
    [t EXCEPT !.state = "FAILURE", !.attempts = t.attempts + 1, !.result = exc]

\* autoretry_for=(Exception,) and self.retry(exc=e): queue the task again
\* until max_retries retries were made, then fail with the exception
Retry(t, exc) ==
    IF t.retries < max_retries
    THEN [t EXCEPT !.retries = t.retries + 1, !.attempts = t.attempts + 1]
    ELSE [t EXCEPT !.state = "FAILURE", !.attempts = t.attempts + 1, !.result = exc]

Done(t, result) ==
    [t EXCEPT !.state = "SUCCESS", !.attempts = t.attempts + 1, !.result = result]

\* tasks.fetch_feed(feed_id): one attempt of task k
fetch_feed(k) ==
    LET t == tasks[k]
    IN  /\ t.state = "PENDING"
        /\ IF t.feed_id \notin DOMAIN feeds
           THEN /\ tasks' = [tasks EXCEPT ![k] = Done(t, "not_found")]
                /\ UNCHANGED <<feeds, articles, ops>>
           ELSE LET feed == feeds[t.feed_id]
                    due == should_fetch(feed)
                    run == RunFeed(feed, articles, upstream[feed.id], now)
                IN  IF due = "AttributeError"
                    THEN /\ tasks' = [tasks EXCEPT ![k] = Retry(t, "AttributeError")]
                         /\ UNCHANGED <<feeds, articles, ops>>
                    ELSE IF due = "False"
                    THEN /\ tasks' = [tasks EXCEPT ![k] = Done(t, "skipped")]
                         /\ UNCHANGED <<feeds, articles, ops>>
                    ELSE /\ articles' = run.table
                         /\ tasks' = [tasks EXCEPT ![k] =
                                         IF run.raised THEN Retry(t, "process_feeds")
                                         ELSE Done(t, "fetched")]
                         /\ feeds' = IF run.raised \/ run.error THEN feeds
                                     ELSE [feeds EXCEPT
                                             ![feed.id].last_fetched = now,
                                             ![feed.id].next_fetch = now + feed.call_frequency]
        /\ UNCHANGED <<upstream, pool, now, pf, hist, npub, ncalls, sched, ops>>

\* the ids of a table in the order the query returns them
RECURSIVE Ascending(_)
Ascending(S) ==
    IF S = {} THEN <<>>
    ELSE LET m == CHOOSE x \in S : \A y \in S : x <= y
         IN  <<m>> \o Ascending(S \ {m})

\* [feed_ids[i:i + batch_size] for i in range(0, total_feeds, batch_size)]
RECURSIVE Batches(_, _)
Batches(feed_ids, batch_size) ==
    IF feed_ids = <<>> THEN <<>>
    ELSE IF Len(feed_ids) <= batch_size THEN <<feed_ids>>
    ELSE <<SubSeq(feed_ids, 1, batch_size)>>
         \o Batches(SubSeq(feed_ids, batch_size + 1, Len(feed_ids)), batch_size)

RECURSIVE Flatten(_)
Flatten(batches) == IF batches = <<>> THEN <<>> ELSE Head(batches) \o Flatten(Tail(batches))

\* group(fetch_feed.s(feed_id) for feed_id in batch).apply_async() for each
\* batch: one task per id, tagged with the number of its batch
RECURSIVE GroupTasks(_, _)
GroupTasks(batches, first) ==
    IF batches = <<>> THEN <<>>
    ELSE [k \in 1..Len(Head(batches)) |-> Task(Head(batches)[k], first)]
         \o GroupTasks(Tail(batches), first + 1)

RECURSIVE Filter(_, _)
Filter(ids, S) ==
    IF ids = <<>> THEN <<>>
    ELSE (IF Head(ids) \in S THEN <<Head(ids)>> ELSE <<>>) \o Filter(Tail(ids), S)

\* tasks.fetch_feeds_in_batches(batch_size)
fetch_feeds_in_batches(batch_size) ==
    LET all == Ascending(DOMAIN feeds)
        outcome == [id \in DOMAIN feeds |-> should_fetch(feeds[id])]
        feed_ids == Filter(all, {id \in DOMAIN feeds : outcome[id] = "True"})
        batches == Batches(feed_ids, batch_size)
        here == [status |-> "none", batches |-> <<>>, table |-> feeds, at |-> now,
                 runs |-> sched.runs + 1]
    IN  /\ sched.runs < MaxDispatch
        /\ IF \E id \in DOMAIN feeds : outcome[id] = "AttributeError"
           THEN /\ sched' = [here EXCEPT !.status = "AttributeError"]
                /\ UNCHANGED tasks
           ELSE IF feed_ids = <<>>
           THEN /\ sched' = [here EXCEPT !.status = "no_feeds"]
                /\ UNCHANGED tasks
           ELSE /\ sched' = [here EXCEPT !.status = "dispatched", !.batches = batches]
                /\ tasks' = tasks \o GroupTasks(batches, Len(tasks) + 1)
        /\ UNCHANGED <<feeds, upstream, pool, articles, now, pf, hist, npub, ncalls, ops>>

\* a queue client sends one group of fetch_feed tasks (tasks.py:112-113)
DispatchGroup(batch) ==
    /\ Len(tasks) + Len(batch) <= MaxTasks
    /\ tasks' = tasks \o GroupTasks(<<batch>>, Len(tasks) + 1)
    /\ UNCHANGED <<feeds, upstream, pool, articles, now, pf, hist, npub, ncalls, sched, ops>>

\* process_feeds(feeds_to_fetch) with its defaults, as one step of the task
\* that calls it: no bookkeeping write, an exception ends the loop
RECURSIVE RunAll(_, _, _)
RunAll(fs, table, t) ==
    IF fs = <<>> THEN [raised |-> FALSE, table |-> table]
    ELSE LET r == RunFeed(Head(fs), table, upstream[Head(fs).id], t)
         IN  IF r.raised THEN [raised |-> TRUE, table |-> r.table]
             ELSE RunAll(Tail(fs), r.table, t)

\* tasks.fetch_all_feeds()
fetch_all_feeds ==
    LET all == Ascending(DOMAIN feeds)
        outcome == [id \in DOMAIN feeds |-> should_fetch(feeds[id])]
        due == Filter(all, {id \in DOMAIN feeds : outcome[id] = "True"})
        feeds_to_fetch == [k \in 1..Len(due) |-> feeds[due[k]]]
        run == RunAll(feeds_to_fetch, articles, now)
    IN  /\ IF \E id \in DOMAIN feeds : outcome[id] = "AttributeError"
           THEN /\ ops' = [ops EXCEPT !.fetch_all_feeds = "AttributeError"]
                /\ UNCHANGED articles
           ELSE IF due = <<>>
           THEN /\ ops' = [ops EXCEPT !.fetch_all_feeds = "no_feeds"]
                /\ UNCHANGED articles
           ELSE /\ ops' = [ops EXCEPT !.fetch_all_feeds =
                                         IF run.raised THEN "raised" ELSE "fetched"]
                /\ articles' = run.table
        /\ UNCHANGED <<feeds, upstream, pool, now, pf, hist, npub, ncalls, tasks, sched>>

(* ---------------------------- task.py and the views -------------------- *)
\* utils.parse_feed called with feed.url, a str, where it expects a Feed:
\* "not feed" holds for the empty string, and feed.url of a str raises
parse_feed_str(feed_url) ==
    IF feed_url = "" THEN [raised |-> TRUE, error |-> "ValueError", entries |-> <<>>]
    ELSE [raised |-> TRUE, error |-> "AttributeError", entries |-> <<>>]

\* Article.objects.get_or_create(url=..., defaults={feed, title, published_at,
\* content}) for each entry
RECURSIVE get_or_create(_, _, _, _)
get_or_create(table, feed_id, entries, t) ==
    IF entries = <<>> THEN table
    ELSE LET e == Head(entries)
             row == [NewArticle(feed_id, e, t) EXCEPT !.authors = <<>>,
                                                      !.categories = <<>>,
                                                      !.meta_keywords = <<>>]
         IN  get_or_create(InsertIgnore(table, row), feed_id, Tail(entries), t)

\* task.fetch_feed(feed_id); what it ends with when its retries are used up
legacy_fetch_feed(feed_id) ==
    /\ IF feed_id \notin DOMAIN feeds
       THEN /\ ops' = [ops EXCEPT !.legacy_fetch_feed = "not_found"]
            /\ UNCHANGED <<feeds, articles>>
       ELSE LET feed == feeds[feed_id]
                r == parse_feed_str(feed.url)
            IN  IF r.raised
                THEN /\ ops' = [ops EXCEPT !.legacy_fetch_feed = r.error]
                     /\ UNCHANGED <<feeds, articles>>
                ELSE /\ ops' = [ops EXCEPT !.legacy_fetch_feed = "fetched"]
                     /\ articles' = get_or_create(articles, feed_id, r.entries, now)
                     /\ feeds' = [feeds EXCEPT ![feed_id].last_fetched = now]
    /\ UNCHANGED <<upstream, pool, now, pf, hist, npub, ncalls, tasks, sched>>

\* the loop of task.fetch_all_feeds over the feeds: the ids fetched before
\* an exception, if any, ends the task
RECURSIVE LegacyAll(_, _, _, _)
LegacyAll(ids, table, done, t) ==
    IF ids = <<>> THEN [raised |-> FALSE, error |-> "none", table |-> table, done |-> done]
    ELSE LET r == parse_feed_str(feeds[Head(ids)].url)
         IN  IF r.raised
             THEN [raised |-> TRUE, error |-> r.error, table |-> table, done |-> done]
             ELSE LegacyAll(Tail(ids), get_or_create(table, Head(ids), r.entries, t),
                            done \cup {Head(ids)}, t)

\* task.fetch_all_feeds()
legacy_fetch_all_feeds ==
    LET res == LegacyAll(Ascending(DOMAIN feeds), articles, {}, now)
    IN  /\ ops' = [ops EXCEPT !.legacy_fetch_all_feeds =
                                  IF res.raised THEN res.error ELSE "fetched"]
        /\ articles' = res.table
        /\ feeds' = [id \in DOMAIN feeds |->
                        IF id \in res.done THEN [feeds[id] EXCEPT !.last_fetched = now]
                        ELSE feeds[id]]
        /\ UNCHANGED <<upstream, pool, now, pf, hist, npub, ncalls, tasks, sched>>

\* views.reset_last_fetched: Feed.objects.update(last_fetched=None)
reset_last_fetched ==
    /\ feeds' = [id \in DOMAIN feeds |-> [feeds[id] EXCEPT !.last_fetched = None]]
    /\ ops' = [ops EXCEPT !.reset_last_fetched = Cardinality(DOMAIN feeds)]
    /\ UNCHANGED <<upstream, pool, articles, now, pf, hist, npub, ncalls, tasks, sched>>

(* ---------------------------- environment ------------------------------ *)
\* the clock advances; it is read when rows are created and at the
\* bookkeeping write
Tick ==
    /\ now < MaxTime
    /\ \A c \in Callers : pf[c].pc \notin {"loop", "create", "update"}
    /\ now' = now + 1
    /\ UNCHANGED <<feeds, upstream, pool, articles, pf, hist, npub, ncalls, tasks, sched, ops>>

\* the publisher changes what the url of feed 1 serves
Publish(response) ==
    /\ npub < MaxPublish
    /\ \A c \in Callers : pf[c].pc \in {"idle", "returned", "raised"}
    /\ response # upstream[1]
    /\ upstream' = [upstream EXCEPT ![1] = response]
    /\ npub' = npub + 1
    /\ UNCHANGED <<feeds, pool, articles, now, pf, hist, ncalls, tasks, sched, ops>>

(* ---------------------------- specification ---------------------------- *)
FeedLists == {<<1>>, <<1, 2>>}

InitialTables(S, F) == {<<>>} \cup {<<StoredRow(id, x)>> : id \in F, x \in S}

Responses(p) == Payloads(Members(p)) \cup {FetchError}

\* one upstream behaviour of P, and a table that is empty or holds one row
\* owned by a feed of F
InitWith(P, F) ==
    /\ pool \in P
    /\ feeds = [id \in FeedIds |->
                  IF id = 1 THEN FeedRow(1, "F1", "f1", "generic", 1)
                  ELSE FeedRow(2, "F2", "f2", "generic", 2)]
    /\ \E r \in Responses(pool) :
          upstream = [id \in FeedIds |-> IF id = 1 THEN r ELSE Response(<<pool[1]>>)]
    /\ articles \in InitialTables(Members(pool), F)
    /\ now = 0
    /\ pf = [c \in Callers |-> Idle]
    /\ hist = [last |-> NoRun]
    /\ npub = 0
    /\ ncalls = 0
    /\ tasks = <<>>
    /\ sched = NoDispatch
    /\ ops = NoOps

Init == InitWith(Pools, {1})

Next ==
    \/ \E c \in Callers, fl \in FeedLists, ulf \in BOOLEAN :
          Call(c, fl, None, None, None, ulf)
    \/ \E c \in Callers : Extract(c)
    \/ \E c \in Callers : Create(c)
    \/ \E c \in Callers : Update(c)
    \/ \E c \in Callers : Save(c)
    \/ Tick
    \/ \E r \in Responses(pool) : Publish(r)

Spec == Init /\ [][Next]_vars

(* ---------------------------- storage alone --------------------------- *)
\* runs of process_feeds over feed 1 at one instant, the publisher changing
\* the response between them
NextStore ==
    \/ \E c \in Callers, ulf \in BOOLEAN : Call(c, <<1>>, None, None, None, ulf)
    \/ \E c \in Callers : Extract(c)
    \/ \E c \in Callers : Create(c)
    \/ \E c \in Callers : Update(c)
    \/ \E c \in Callers : Save(c)
    \/ \E r \in Responses(pool) : Publish(r)

\* responses that repeat a URL, omit it or bring another one; the stored row
\* may belong to another feed
SpecUrls ==
    InitWith({<<ItemA, ItemB, ItemU>>}, FeedIds) /\ [][NextStore]_vars

\* responses whose items differ in their published date
SpecDates == InitWith({<<ItemD0, ItemD2, ItemN>>}, {1}) /\ [][NextStore]_vars

(* ---------------------------- extraction alone ------------------------ *)
\* parse_feed as process_feeds calls it, over every filter argument and every
\* last_fetched a feed can carry
ArgTimes == OptTime
ArgCounts == {None, 0, 1}

InitExtract ==
    /\ pool \in Pools
    /\ \E t \in OptTime :
          feeds = [id \in FeedIds |->
                     IF id = 1
                     THEN [FeedRow(1, "F1", "f1", "generic", 1) EXCEPT
                              !.last_fetched = t,
                              !.next_fetch = IF t = None THEN None ELSE t + 1]
                     ELSE FeedRow(2, "F2", "f2", "generic", 2)]
    /\ \E r \in Responses(pool) :
          upstream = [id \in FeedIds |-> IF id = 1 THEN r ELSE Response(<<pool[1]>>)]
    /\ articles = <<>>
    /\ now = MaxTime
    /\ pf = [c \in Callers |-> Idle]
    /\ hist = [last |-> NoRun]
    /\ npub = 0
    /\ ncalls = 0
    /\ tasks = <<>>
    /\ sched = NoDispatch
    /\ ops = NoOps

NextExtract ==
    \/ \E c \in Callers, me \in ArgCounts, sd \in ArgTimes, ed \in ArgTimes :
          /\ pf[c].pc = "idle"
          /\ Call(c, <<1>>, me, sd, ed, FALSE)
    \/ \E c \in Callers : Extract(c)

SpecExtract == InitExtract /\ [][NextExtract]_vars

(* ---------------------------- the scheduler alone ---------------------- *)
Groups == {<<1>>, <<2>>, <<1, 2>>, <<2, 1>>}

\* a feed never fetched, or fetched at instant 0
Bookkeeping(id, fetched) ==
    LET row == FeedRow(id, IF id = 1 THEN "F1" ELSE "F2", IF id = 1 THEN "f1" ELSE "f2",
                       "generic", id)
    IN  IF fetched THEN [row EXCEPT !.last_fetched = 0, !.next_fetch = row.call_frequency]
        ELSE row

InitSched ==
    /\ pool = <<ItemA, ItemB, ItemU>>
    /\ \E S \in SUBSET FeedIds : \E fetched \in [S -> BOOLEAN] :
          feeds = [id \in S |-> Bookkeeping(id, fetched[id])]
    /\ upstream = [id \in FeedIds |-> Response(<<pool[1]>>)]
    /\ articles = <<>>
    /\ now = 0
    /\ pf = [c \in Callers |-> Idle]
    /\ hist = [last |-> NoRun]
    /\ npub = 0
    /\ ncalls = 0
    /\ tasks = <<>>
    /\ sched = NoDispatch
    /\ ops = NoOps

NextSched ==
    \/ \E n \in 1..MaxBatchSize : fetch_feeds_in_batches(n)
    \/ \E b \in Groups : DispatchGroup(b)
    \/ \E k \in 1..Len(tasks) : fetch_feed(k)
    \/ Tick

SpecSched == InitSched /\ [][NextSched]_vars

(* ---------------------------- the writers of Feed ---------------------- *)
\* every operation that writes a Feed row, with the clock: process_feeds as
\* the tasks and the views call it, the tasks of task.py, tasks.fetch_all_feeds
\* and reset_last_fetched
NextFeeds ==
    \/ \E c \in Callers, fl \in FeedLists, ulf \in BOOLEAN :
          Call(c, fl, None, None, None, ulf)
    \/ \E c \in Callers : Extract(c)
    \/ \E c \in Callers : Create(c)
    \/ \E c \in Callers : Update(c)
    \/ \E c \in Callers : Save(c)
    \/ Tick
    \/ fetch_all_feeds
    \/ \E id \in FeedIds : legacy_fetch_feed(id)
    \/ legacy_fetch_all_feeds
    \/ reset_last_fetched

\* both feeds in the table, each never fetched or fetched at instant 0, and
\* an upstream that does not change
InitFeeds ==
    /\ pool = <<ItemA, ItemB, ItemU>>
    /\ \E fetched \in [FeedIds -> BOOLEAN] :
          feeds = [id \in FeedIds |-> Bookkeeping(id, fetched[id])]
    /\ upstream = [id \in FeedIds |-> Response(<<pool[1]>>)]
    /\ articles = <<>>
    /\ now = 0
    /\ pf = [c \in Callers |-> Idle]
    /\ hist = [last |-> NoRun]
    /\ npub = 0
    /\ ncalls = 0
    /\ tasks = <<>>
    /\ sched = NoDispatch
    /\ ops = NoOps

SpecFeeds == InitFeeds /\ [][NextFeeds]_vars

(* ---------------------------- two pipelines at once ------------------- *)
\* two process_feeds calls, one per feed, whose steps interleave: both
\* feeds serve the same item
Workers == {"c1", "c2"}

WorkerFeed(c) == IF c = "c1" THEN 1 ELSE 2

InitRace ==
    /\ pool \in {<<ItemA, ItemB, ItemU>>, <<ItemA, ItemW, ItemC>>}
    /\ feeds = [id \in FeedIds |->
                  IF id = 1 THEN FeedRow(1, "F1", "f1", "generic", 1)
                  ELSE FeedRow(2, "F2", "f2", "generic", 2)]
    /\ \E r \in {Response(<<pool[1]>>), Response(<<pool[2], pool[3]>>)} :
          upstream = [id \in FeedIds |-> IF id = 1 THEN r ELSE Response(<<pool[1]>>)]
    /\ articles \in InitialTables({pool[3]}, {1})
    /\ now = 0
    /\ pf = [c \in Workers |-> Idle]
    /\ hist = [last |-> NoRun]
    /\ npub = 0
    /\ ncalls = 0
    /\ tasks = <<>>
    /\ sched = NoDispatch
    /\ ops = NoOps

NextRace ==
    \/ \E c \in Workers, ulf \in BOOLEAN : Call(c, <<WorkerFeed(c)>>, None, None, None, ulf)
    \/ \E c \in Workers : Extract(c)
    \/ \E c \in Workers : Create(c)
    \/ \E c \in Workers : Update(c)
    \/ \E c \in Workers : Save(c)

SpecRace == InitRace /\ [][NextRace]_vars

(* ---------------------------- a JSON feed ----------------------------- *)
\* feed 1 is configured with the JSON strategy; an item of its payload is an
\* object whose mapped url field is its link ("" = the field is missing)
InitJson ==
    /\ pool = <<ItemA, ItemU, ItemC>>
    /\ feeds = [id \in FeedIds |->
                  IF id = 1 THEN FeedRow(1, "F1", "f1", "json_feed", 1)
                  ELSE FeedRow(2, "F2", "f2", "generic", 2)]
    /\ \E r \in Responses(pool) :
          upstream = [id \in FeedIds |-> IF id = 1 THEN r ELSE Response(<<pool[1]>>)]
    /\ articles \in InitialTables({ItemA}, {1})
    /\ now = 0
    /\ pf = [c \in Callers |-> Idle]
    /\ hist = [last |-> NoRun]
    /\ npub = 0
    /\ ncalls = 0
    /\ tasks = <<>>
    /\ sched = NoDispatch
    /\ ops = NoOps

SpecJson == InitJson /\ [][NextStore]_vars

(* ---------------------------- the three extractors -------------------- *)
\* each extractor applied to the payload of feed 1 under its own signature,
\* over every filter argument; the locals kept are the arguments and the
\* list returned
Selectors == {"", "article"}

Parsed(strategy, selector, me, sd, ed, entries) ==
    [pc |-> "parsed", strategy |-> strategy, article_selector |-> selector,
     last_fetched |-> feeds[1].last_fetched, max_entries |-> me,
     start_date |-> sd, end_date |-> ed, response |-> upstream[1],
     entries |-> entries]

ParseGeneric(c, me, sd, ed) ==
    /\ pf[c].pc = "idle"
    /\ pf' = [pf EXCEPT ![c] =
                Parsed("generic", "", me, sd, ed,
                       parse_generic_feed(upstream[1], feeds[1].last_fetched, me, sd, ed))]
    /\ UNCHANGED <<feeds, upstream, pool, articles, now, hist, npub, ncalls, tasks, sched, ops>>

ParseJson(c, me, sd, ed) ==
    /\ pf[c].pc = "idle"
    /\ pf' = [pf EXCEPT ![c] =
                Parsed("json_feed", "", me, sd, ed,
                       parse_json_feed(upstream[1], feeds[1].last_fetched, me, sd, ed))]
    /\ UNCHANGED <<feeds, upstream, pool, articles, now, hist, npub, ncalls, tasks, sched, ops>>

ParseHtml(c, selector, me, sd, ed) ==
    /\ pf[c].pc = "idle"
    /\ pf' = [pf EXCEPT ![c] =
                Parsed("article", selector, me, sd, ed,
                       parse_html_feed(selector, upstream[1], feeds[1].last_fetched,
                                       me, sd, ed))]
    /\ UNCHANGED <<feeds, upstream, pool, articles, now, hist, npub, ncalls, tasks, sched, ops>>

NextParsers ==
    \/ \E c \in Callers, me \in ArgCounts, sd \in ArgTimes, ed \in ArgTimes :
          ParseGeneric(c, me, sd, ed)
    \/ \E c \in Callers, me \in ArgCounts, sd \in ArgTimes, ed \in ArgTimes :
          ParseJson(c, me, sd, ed)
    \/ \E c \in Callers, sel \in Selectors, me \in ArgCounts, sd \in ArgTimes,
          ed \in ArgTimes :
          ParseHtml(c, sel, me, sd, ed)

SpecParsers == InitExtract /\ [][NextParsers]_vars

(* ---------------------------- the writers of Article ------------------ *)
\* every operation of the core that reaches the Article table, with the
\* clock: process_feeds, the scheduled tasks of tasks.py (one fetch_feed task,
\* fetch_all_feeds), and an upstream that changes a title and adds a URL
LifePayloads == {Response(<<ItemB>>), Response(<<ItemB, ItemC>>)}

InitLife ==
    /\ pool = <<ItemA, ItemB, ItemC>>
    /\ feeds = [id \in FeedIds |->
                  IF id = 1 THEN FeedRow(1, "F1", "f1", "generic", 1)
                  ELSE FeedRow(2, "F2", "f2", "generic", 2)]
    /\ upstream = [id \in FeedIds |-> Response(<<pool[1]>>)]
    /\ articles \in InitialTables({ItemA}, FeedIds)
    /\ now = 0
    /\ pf = [c \in Callers |-> Idle]
    /\ hist = [last |-> NoRun]
    /\ npub = 0
    /\ ncalls = 0
    /\ tasks = <<>>
    /\ sched = NoDispatch
    /\ ops = NoOps

NextLife ==
    \/ \E c \in Callers, ulf \in BOOLEAN : Call(c, <<1>>, None, None, None, ulf)
    \/ \E c \in Callers : Extract(c)
    \/ \E c \in Callers : Create(c)
    \/ \E c \in Callers : Update(c)
    \/ \E c \in Callers : Save(c)
    \/ Tick
    \/ \E r \in LifePayloads : Publish(r)
    \/ tasks = <<>> /\ DispatchGroup(<<1>>)
    \/ \E k \in 1..Len(tasks) : fetch_feed(k)
    \/ fetch_all_feeds

SpecLife == InitLife /\ [][NextLife]_vars

(* ---------------------------- incremental fetching -------------------- *)
\* feed 1 fetched again and again by process_feeds as the scheduled task
\* calls it (tasks.py:32), while items with a new URL appear upstream and
\* stay there
Late(t) == Item("u2", <<"a">>, t, <<"x", "y">>)

\* process_feeds([feed], None, None, None, update_last_fetched=True): entry
ScheduledRun(c, id) ==
    /\ pf[c].pc \in {"idle", "returned", "raised"}
    /\ pf' = [pf EXCEPT ![c] =
                [Idle EXCEPT !.pc = "loop", !.feeds = <<feeds[id]>>, !.i = 1,
                             !.update_last_fetched = TRUE]]
    /\ UNCHANGED <<feeds, upstream, pool, articles, now, hist, npub, ncalls, tasks, sched, ops>>

\* the publisher adds an item to the payload of feed 1, at any moment
Appear(item) ==
    /\ npub < MaxPublish
    /\ upstream[1].ok
    /\ \A k \in 1..Len(upstream[1].items) : upstream[1].items[k].link # item.link
    /\ upstream' = [upstream EXCEPT ![1] = Response(Append(upstream[1].items, item))]
    /\ npub' = npub + 1
    /\ UNCHANGED <<feeds, pool, articles, now, pf, hist, ncalls, tasks, sched, ops>>

\* the clock, at any moment
Clock ==
    /\ now < MaxTime
    /\ now' = now + 1
    /\ UNCHANGED <<feeds, upstream, pool, articles, pf, hist, npub, ncalls, tasks, sched, ops>>

InitMiss ==
    /\ pool = <<ItemA, ItemB, ItemC>>
    /\ \E fetched \in BOOLEAN :
          feeds = [id \in FeedIds |-> Bookkeeping(id, id = 1 /\ fetched)]
    /\ upstream = [id \in FeedIds |-> Response(<<pool[1]>>)]
    /\ articles = <<>>
    /\ now = 0
    /\ pf = [c \in Callers |-> Idle]
    /\ hist = [last |-> NoRun]
    /\ npub = 0
    /\ ncalls = 0
    /\ tasks = <<>>
    /\ sched = NoDispatch
    /\ ops = NoOps

NextMiss ==
    \/ \E c \in Callers : ScheduledRun(c, 1)
    \/ \E c \in Callers : Extract(c)
    \/ \E c \in Callers : Create(c)
    \/ \E c \in Callers : Update(c)
    \/ \E c \in Callers : Save(c)
    \/ \E t \in Time : Appear(Late(t))
    \/ Clock

\* the runs repeat for ever and each of them runs to its end
FairMiss ==
    /\ \A c \in Callers : WF_vars(ScheduledRun(c, 1))
    /\ \A c \in Callers : WF_vars(Extract(c))
    /\ \A c \in Callers : WF_vars(Create(c))
    /\ \A c \in Callers : WF_vars(Update(c))
    /\ \A c \in Callers : WF_vars(Save(c))

SpecMiss == InitMiss /\ [][NextMiss]_vars /\ FairMiss

(* ---------------------------- properties ------------------------------- *)
\* the stored row an entry was matched with, as read before the update
Before(rec, url) == rec.db0[rec.map[url].pk]
\* the same row as stored now
Stored(rec, url) == articles[rec.map[url].pk]

\* C1: a run of a feed that directly follows a completed run of the same feed
\* with the same arguments, the same upstream payload and the stored articles
\* that run left, does not raise, reports added = 0 and updated = 0 and leaves
\* every stored article unchanged.
C1_Idempotent ==
    \A c \in Callers :
        pf[c].repeat =>
            /\ pf[c].pc # "raised"
            /\ pf[c].pc = "save" =>
                  /\ pf[c].new_count = 0
                  /\ pf[c].updated_count = 0
                  /\ articles = pf[c].db0

\* C2: no two stored articles share a URL, and once a batch has been
\* inserted every URL of the batch is stored exactly once.
C2_UrlUnique ==
    /\ \A i, j \in 1..Len(articles) : articles[i].url = articles[j].url => i = j
    /\ \A c \in Callers :
          pf[c].pc \in {"update", "save"} =>
              \A k \in 1..Len(pf[c].entries) :
                  Cardinality({i \in 1..Len(articles) :
                                  articles[i].url = pf[c].entries[k].url}) = 1

\* a batch with two new entries of one URL has been inserted
C2_Witness ==
    \E c \in Callers :
        /\ pf[c].pc = "update"
        /\ \E k1, k2 \in 1..Len(pf[c].entries) :
              /\ k1 # k2
              /\ pf[c].entries[k1].url = pf[c].entries[k2].url
              /\ pf[c].entries[k1].url \notin DOMAIN pf[c].map

\* C3: no step lowers the published_at of a stored article when it is set
\* before and after the step.
C3_Monotonic ==
    [][\A i \in 1..Len(articles) :
          (articles[i].published_at # None /\ articles'[i].published_at # None)
              => articles'[i].published_at >= articles[i].published_at]_vars

\* one update raised a stored date and then met an earlier incoming date,
\* which it did not write
C3_Witness ==
    \E c \in Callers :
        /\ pf[c].pc = "save"
        /\ \E k1, k2 \in 1..Len(pf[c].entries) :
              LET u == pf[c].entries[k1].url
              IN  /\ u \in DOMAIN pf[c].map
                  /\ pf[c].entries[k2].url = u
                  /\ Before(pf[c], u).published_at # None
                  /\ pf[c].entries[k1].published # None
                  /\ pf[c].entries[k2].published # None
                  /\ pf[c].entries[k1].published > Before(pf[c], u).published_at
                  /\ pf[c].entries[k2].published < Stored(pf[c], u).published_at
                  /\ Stored(pf[c], u).published_at = pf[c].entries[k1].published

\* an entry and a stored row that differ at most in the order of their lists
SameUpToOrder(row, e) ==
    /\ row.title = e.title
    /\ row.content = e.content
    /\ row.published_at = e.published
    /\ Members(row.authors) = Members(e.authors) /\ Len(row.authors) = Len(e.authors)
    /\ Members(row.categories) = Members(e.categories)
    /\ Len(row.categories) = Len(e.categories)
    /\ Members(row.meta_keywords) = Members(e.meta_keywords)
    /\ Len(row.meta_keywords) = Len(e.meta_keywords)

\* C4: when every entry of an existing URL equals the stored row up to the
\* order of authors, categories and meta_keywords, the run updates nothing
\* and counts updated = 0.
C4_OrderIndependent ==
    \A c \in Callers :
        (/\ pf[c].pc = "save"
         /\ \A k \in 1..Len(pf[c].entries) :
               pf[c].entries[k].url \in DOMAIN pf[c].map
                   => SameUpToOrder(Before(pf[c], pf[c].entries[k].url), pf[c].entries[k]))
        => /\ pf[c].updated_count = 0
           /\ \A u \in DOMAIN pf[c].map : Stored(pf[c], u) = Before(pf[c], u)

\* the items of the response that extraction considers
Considered(rec) == Truncate(rec.response.items, rec.max_entries)

\* C5: after an extraction with last_fetched = T and no start_date, no entry
\* of the result has a published date <= T, and every considered item with a
\* URL, a published date > T and within end_date is in the result.
C5_Cutoff ==
    \A c \in Callers :
        LET rec == pf[c]
            T == rec.feeds[rec.i].last_fetched
        IN  (rec.pc = "create" /\ T # None /\ rec.start_date = None) =>
                /\ \A k \in 1..Len(rec.entries) :
                      rec.entries[k].published = None \/ rec.entries[k].published > T
                /\ \A j \in 1..Len(Considered(rec)) :
                      LET e == GenericEntry(Considered(rec)[j])
                      IN  (/\ e.url # ""
                           /\ e.published # None
                           /\ e.published > T
                           /\ (rec.end_date = None \/ e.published <= rec.end_date))
                          => e \in Members(rec.entries)

\* an extraction that drops an item published at T or before and keeps one
\* published after T
C5_Witness ==
    \E c \in Callers :
        LET rec == pf[c]
            T == rec.feeds[rec.i].last_fetched
        IN  /\ rec.pc = "create" /\ T # None /\ rec.start_date = None
            /\ \E j \in 1..Len(Considered(rec)) :
                  /\ ParseDate(Considered(rec)[j].pubDate) # None
                  /\ ParseDate(Considered(rec)[j].pubDate) <= T
            /\ \E k \in 1..Len(rec.entries) :
                  rec.entries[k].published # None /\ rec.entries[k].published > T

\* a completed run of the feed precedes this one, and the response holds one
\* item whose URL is stored for the feed with the same published date and
\* another title
TitleChanged(rec) ==
    /\ rec.pc = "save"
    /\ hist.last.some /\ hist.last.feed = rec.feeds[rec.i].id
    /\ rec.response.ok /\ Len(rec.response.items) = 1
    /\ LET item == rec.response.items[1]
       IN  /\ item.link # ""
           /\ \E i \in 1..Len(rec.db0) :
                 /\ rec.db0[i].url = item.link
                 /\ rec.db0[i].feed = rec.feeds[rec.i].id
                 /\ rec.db0[i].published_at = ParseDate(item.pubDate)
                 /\ strip(rec.db0[i].title) # strip(item.title)

NewTitleStored(rec) ==
    \E i \in 1..Len(articles) :
        /\ articles[i].url = rec.response.items[1].link
        /\ articles[i].title = strip(rec.response.items[1].title)

OldTitleKept(rec) ==
    \E i \in 1..Len(articles) :
        /\ articles[i].url = rec.response.items[1].link
        /\ articles[i].title = rec.db0[i].title

\* the item is not dropped by the incremental cutoff
PassesCutoff(rec) ==
    LET T == rec.feeds[rec.i].last_fetched
        published == ParseDate(rec.response.items[1].pubDate)
    IN  T = None \/ published = None \/ published > T

\* C7: a scheduled run (update_last_fetched = True, as fetch_feed calls
\* process_feeds) that follows a scheduled run of the same feed, after a
\* stored entry's title changed upstream with its URL and published date
\* unchanged, counts updated = 1 and created = 0 and stores the new title.
C7_ScheduledRerunUpdates ==
    \A c \in Callers :
        (/\ TitleChanged(pf[c])
         /\ pf[c].update_last_fetched
         /\ hist.last.args[4])
        => /\ pf[c].updated_count = 1
           /\ pf[c].new_count = 0
           /\ NewTitleStored(pf[c])

\* what the code does in the case of C7: the changed title is written only
\* when the entry passes the incremental cutoff (last_fetched unset or
\* earlier than its published date, or no published date); otherwise the
\* entry is filtered out before reconciliation and the stored title stays.
RerunUpdatesPastCutoff ==
    \A c \in Callers :
        TitleChanged(pf[c]) =>
            IF PassesCutoff(pf[c])
            THEN /\ pf[c].updated_count = 1
                 /\ pf[c].new_count = 0
                 /\ NewTitleStored(pf[c])
            ELSE /\ pf[c].updated_count = 0
                 /\ pf[c].new_count = 0
                 /\ OldTitleKept(pf[c])

\* a re-run has written a changed title
RerunUpdate_Witness ==
    \E c \in Callers :
        /\ TitleChanged(pf[c])
        /\ hist.last.response.ok /\ hist.last.response.items # <<>>
        /\ pf[c].updated_count = 1
        /\ NewTitleStored(pf[c])

\* C8: process_feeds never lets an exception out, and the details it returns
\* hold one summary per input feed, in the order of the input.
C8_SummaryPerFeed ==
    \A c \in Callers :
        /\ pf[c].pc # "raised"
        /\ pf[c].pc = "returned" =>
              /\ Len(pf[c].details) = Len(pf[c].feeds)
              /\ \A k \in 1..Len(pf[c].feeds) : pf[c].details[k].feed = pf[c].feeds[k].id

Due(feed, t) == feed.next_fetch = None \/ t >= feed.next_fetch

\* C10: fetch_feeds_in_batches ends without an error on every feed table, and
\* the ids it dispatches are exactly the ids of the feeds that are Due.
C10_DueSelection ==
    /\ sched.status # "AttributeError"
    /\ sched.status \in {"dispatched", "no_feeds"} =>
          Members(Flatten(sched.batches))
              = {id \in DOMAIN sched.table : Due(sched.table[id], sched.at)}

\* C11: when a call of process_feeds made by a scheduled task (fetch_feed
\* passes update_last_fetched = True, fetch_all_feeds passes nothing) completes
\* a feed without raising, the feed's last_fetched is the completion instant
\* and its next_fetch is last_fetched + call_frequency.
C11_BookkeepingAdvance ==
    [][\A c \in Callers :
          (pf[c].pc = "save" /\ pf'[c].pc # "save")
              => LET id == pf[c].feeds[pf[c].i].id
                 IN  /\ feeds'[id].last_fetched = now
                     /\ feeds'[id].next_fetch = now + feeds'[id].call_frequency]_vars

\* C12: every feed with last_fetched and next_fetch both set has
\* next_fetch >= last_fetched + call_frequency.
C12_NextFetchAfterInterval ==
    \A id \in DOMAIN feeds :
        (feeds[id].last_fetched # None /\ feeds[id].next_fetch # None)
            => feeds[id].next_fetch >= feeds[id].last_fetched + feeds[id].call_frequency

\* a feed was scheduled at an earlier instant and the tasks of task.py and
\* reset_last_fetched have run since the table was set up
C12_Witness ==
    /\ \E id \in DOMAIN feeds :
          /\ feeds[id].last_fetched # None
          /\ feeds[id].next_fetch # None
          /\ feeds[id].last_fetched < now
    /\ ops.legacy_fetch_feed # "none"
    /\ ops.legacy_fetch_all_feeds # "none"
    /\ ops.reset_last_fetched # None

\* C13: an attempt of a fetch_feed task that raises leaves every feed's
\* last_fetched and next_fetch as they were, and the task fails only when
\* the attempt ceiling (max_retries retries after the first attempt) is
\* reached.
C13_RetriedThenUnchanged ==
    [][\A k \in 1..Len(tasks) :
          (tasks'[k] # tasks[k] /\ tasks'[k].state # "SUCCESS")
              => /\ feeds' = feeds
                 /\ tasks'[k].state = "FAILURE" =>
                       /\ tasks'[k].attempts = max_retries + 1
                       /\ tasks'[k].retries = max_retries]_vars

\* a task on a stored feed has used up its attempts
C13_Witness ==
    \E k \in 1..Len(tasks) :
        /\ tasks[k].feed_id \in DOMAIN feeds
        /\ tasks[k].state = "FAILURE"
        /\ tasks[k].attempts = max_retries + 1

C15_NoUrlLessArticle ==
    \A c \in Callers :
        pf[c].pc \in {"create", "update", "save", "raised"} =>
            /\ \A k \in 1..Len(pf[c].entries) : pf[c].entries[k].url # ""
            /\ \A i \in (Len(pf[c].db0) + 1)..Len(articles) : articles[i].url # ""

\* C16: within one feed of a process_feeds call the lookup follows the
\* extraction, the update follows the insert and last_fetched/next_fetch
\* are written only by the step after the update; a call that raises has
\* left its feed's last_fetched and next_fetch as they were when it began.
C16_OrderAndAtLeastOnce ==
    [][/\ \A id \in DOMAIN feeds :
             feeds'[id] # feeds[id] =>
                 \E c \in Callers :
                     /\ pf[c].pc = "save"
                     /\ pf[c].feeds[pf[c].i].id = id
                     /\ pf'[c].pc \in {"loop", "returned"}
       /\ \A c \in Callers :
             /\ pf'[c].pc = "create" => pf[c].pc \in {"loop", "create"}
             /\ pf'[c].pc = "update" => pf[c].pc \in {"create", "update"}
             /\ pf'[c].pc = "save" => pf[c].pc \in {"update", "save"}
             /\ pf'[c].pc = "raised" =>
                   LET feed == pf'[c].feeds[pf'[c].i]
                   IN  /\ pf[c].pc \in {"update", "raised"}
                       /\ feeds'[feed.id].last_fetched = feed.last_fetched
                       /\ feeds'[feed.id].next_fetch = feed.next_fetch]_vars

\* a call with update_last_fetched raised in the reconciliation of a feed
C16_Witness ==
    \E c \in Callers :
        /\ pf[c].pc = "raised"
        /\ pf[c].update_last_fetched
        /\ feeds[pf[c].feeds[pf[c].i].id].last_fetched = pf[c].feeds[pf[c].i].last_fetched

\* two calls are past their insert, and each found url u absent from the
\* table and holds an entry for it
Raced(c1, c2, u) ==
    /\ c1 # c2
    /\ pf[c1].pc \in {"update", "save", "raised"}
    /\ pf[c2].pc \in {"update", "save", "raised"}
    /\ \E k \in 1..Len(pf[c1].entries) : pf[c1].entries[k].url = u
    /\ \E k \in 1..Len(pf[c2].entries) : pf[c2].entries[k].url = u
    /\ u \notin DOMAIN pf[c1].map
    /\ u \notin DOMAIN pf[c2].map
    /\ ~HasUrl(pf[c1].db0, u)
    /\ ~HasUrl(pf[c2].db0, u)

\* C17: when two concurrent calls both found a URL absent and both inserted
\* it, neither has raised, one row holds the URL and every row stored before
\* is still there.
C17_ConcurrentInsert ==
    \A c1, c2 \in Workers :
        \A u \in {"u1", "u2"} :
            Raced(c1, c2, u) =>
                /\ pf[c1].pc # "raised" /\ pf[c2].pc # "raised"
                /\ Cardinality({i \in 1..Len(articles) : articles[i].url = u}) = 1
                /\ \A i \in 1..Len(pf[c1].db0) : articles[i].url = pf[c1].db0[i].url

\* both calls found u1 absent and both are past their insert
C17_Witness == Raced("c1", "c2", "u1")

\* the links of the items of a response, the missing ones left out
Links(response) ==
    {response.items[k].link : k \in 1..Len(response.items)} \ {""}

\* a JSON feed is about to be extracted and its payload holds an item without
\* the url field
JsonWithUrlLess(c) ==
    /\ pf[c].pc = "loop"
    /\ pf[c].feeds[pf[c].i].parser_type = "json_feed"
    /\ upstream[pf[c].feeds[pf[c].i].id].ok
    /\ \E k \in 1..Len(upstream[pf[c].feeds[pf[c].i].id].items) :
          upstream[pf[c].feeds[pf[c].i].id].items[k].link = ""

\* C18: extracting a JSON feed whose payload holds an item without the url
\* field gives no error: the items that have a url, and only they, go on to
\* the reconciliation.
C18_JsonSkipsUrlLess ==
    [][\A c \in Callers :
          (JsonWithUrlLess(c) /\ pf'[c] # pf[c]) =>
              /\ pf'[c].pc = "create"
              /\ {pf'[c].entries[k].url : k \in 1..Len(pf'[c].entries)}
                    = Links(upstream[pf[c].feeds[pf[c].i].id])]_vars

\* the ids of the Due feeds of the table a dispatch read, in query order
DueList ==
    Filter(Ascending(DOMAIN sched.table),
           {id \in DOMAIN sched.table : Due(sched.table[id], sched.at)})

\* C19: once fetch_feeds_in_batches has run, the batches it dispatched,
\* concatenated in dispatch order, are the list of Due ids, so that each Due
\* id is in one batch once; for its batch_size every batch has at most that
\* many ids and every batch but the last has exactly that many.
C19_BatchPartition ==
    sched.status # "none" =>
        /\ Flatten(sched.batches) = DueList
        /\ \A id \in Members(DueList) :
              Cardinality({<<b, k>> \in (1..Len(sched.batches)) \X (1..MaxTasks) :
                              /\ k <= Len(sched.batches[b])
                              /\ sched.batches[b][k] = id}) = 1
        /\ \E batch_size \in 1..MaxBatchSize :
              \A b \in 1..Len(sched.batches) :
                  /\ Len(sched.batches[b]) <= batch_size
                  /\ b < Len(sched.batches) => Len(sched.batches[b]) = batch_size

\* entry k of the call meets a stored article, and the published date is
\* absent on exactly one side
AbsentDate(rec, k) ==
    /\ rec.entries[k].url \in DOMAIN rec.map
    /\ (rec.map[rec.entries[k].url].obj.published_at = None)
          # (rec.entries[k].published = None)

\* C20: the reconciliation of an entry and a stored article of which exactly
\* one has a published date completes without raising, and a stored
\* published_at is not cleared by it.
C20_AbsentDateTolerated ==
    [][\A c \in Callers :
          (pf[c].pc = "update" /\ pf'[c] # pf[c]) =>
              \A k \in 1..Len(pf[c].entries) :
                  AbsentDate(pf[c], k) =>
                      LET stored == pf[c].map[pf[c].entries[k].url]
                      IN  /\ pf'[c].pc = "save"
                          /\ stored.obj.published_at # None =>
                                articles'[stored.pk].published_at # None]_vars

\* C21: a fetch_feed task makes at most 1 + max_retries attempts, and every
\* attempt on a Due feed, a retry included, runs the whole pipeline on the
\* feed row and the Article table as they stand when it starts: it succeeds
\* when the pipeline returns and counts one more retry when it raises.
C21_RetryWholePipeline ==
    [][\A k \in 1..Len(tasks) :
          (tasks'[k] # tasks[k] /\ tasks[k].feed_id \in DOMAIN feeds) =>
              LET feed == feeds[tasks[k].feed_id]
                  run == RunFeed(feed, articles, upstream[feed.id], now)
              IN  /\ tasks'[k].attempts = tasks[k].attempts + 1
                  /\ tasks'[k].attempts <= max_retries + 1
                  /\ Due(feed, now) =>
                        /\ articles' = run.table
                        /\ ~run.raised => tasks'[k].state = "SUCCESS"
                        /\ run.raised =>
                              \/ tasks'[k].retries = tasks[k].retries + 1
                              \/ tasks'[k].result = "process_feeds"]_vars

\* an entry differs from a stored row in a field: the texts after trimming,
\* the lists, or a later published date
EntryDiffers(row, e) ==
    \/ strip(row.title) # strip(e.title)
    \/ strip(row.content) # strip(e.content)
    \/ row.authors # e.authors
    \/ row.categories # e.categories
    \/ row.meta_keywords # e.meta_keywords
    \/ (row.published_at # None /\ e.published # None /\ e.published > row.published_at)

\* the stored URLs for which the run holds an entry that differs from the row
ChangedUrls(rec) ==
    {u \in DOMAIN rec.map :
        \E k \in 1..Len(rec.entries) :
            rec.entries[k].url = u /\ EntryDiffers(Before(rec, u), rec.entries[k])}

\* C22: after the reconciliation of a feed, a stored article none of whose
\* entries differs from it (whitespace around title and content aside) is as
\* it was, only the articles with a differing entry were written, and the
\* updated count is the number of those articles.
C22_UpdateSelection ==
    \A c \in Callers :
        pf[c].pc = "save" =>
            /\ \A u \in DOMAIN pf[c].map \ ChangedUrls(pf[c]) :
                  Stored(pf[c], u) = Before(pf[c], u)
            /\ \A i \in 1..Len(pf[c].db0) :
                  articles[i] # pf[c].db0[i] => pf[c].db0[i].url \in ChangedUrls(pf[c])
            /\ pf[c].updated_count = Cardinality(ChangedUrls(pf[c]))

\* the dict an extractor builds for an item
EntryOf(strategy, item) ==
    CASE strategy = "generic" -> GenericEntry(item)
      [] strategy = "json_feed" -> JsonEntry(item)
      [] OTHER -> HtmlEntry(item)

\* the extractor turns the item into an entry before its date filters: the
\* payload was read, the item is within max_entries, and the JSON and HTML
\* extractors found its url
Reaches(rec, j) ==
    /\ rec.response.ok
    /\ j \in 1..Len(Truncate(rec.response.items, rec.max_entries))
    /\ rec.strategy # "generic" => rec.response.items[j].link # ""
    /\ rec.strategy = "article" => rec.article_selector # ""

\* C23: in the list an extractor returns no entry has a published date
\* before a given start_date or after a given end_date, and every item
\* whose published date is absent or unparseable, once the extractor reaches
\* its filters, is in the list whatever start_date, end_date and
\* last_fetched are.
C23_DateRange ==
    \A c \in Callers :
        pf[c].pc = "parsed" =>
            /\ \A k \in 1..Len(pf[c].entries) :
                  LET published == pf[c].entries[k].published
                  IN  published # None =>
                         /\ pf[c].start_date # None => published >= pf[c].start_date
                         /\ pf[c].end_date # None => published <= pf[c].end_date
            /\ \A j \in 1..Len(pf[c].response.items) :
                  (/\ Reaches(pf[c], j)
                   /\ ParseDate(pf[c].response.items[j].pubDate) = None)
                  => EntryOf(pf[c].strategy, pf[c].response.items[j])
                         \in Members(pf[c].entries)

\* an extraction with a start_date and a last_fetched that dropped a dated
\* item and kept an undated one
DateRangeCase(strategy) ==
    \E c \in Callers :
        /\ pf[c].pc = "parsed" /\ pf[c].strategy = strategy
        /\ pf[c].start_date # None /\ pf[c].last_fetched # None
        /\ Len(pf[c].entries) = 1 /\ pf[c].entries[1].published = None
        /\ \E j \in 1..Len(pf[c].response.items) :
              /\ Reaches(pf[c], j)
              /\ ParseDate(pf[c].response.items[j].pubDate) # None
              /\ ParseDate(pf[c].response.items[j].pubDate) < pf[c].start_date

C23_Witness == DateRangeCase("generic")

C23_WitnessJson == DateRangeCase("json_feed")

C23_WitnessHtml == DateRangeCase("article")

\* the first n items of a payload
FirstN(response, n) ==
    [response EXCEPT !.items = SubSeq(response.items, 1,
                                      IF n < Len(response.items) THEN n
                                      ELSE Len(response.items))]

\* what the extractor of the call returns for a payload when no max_entries
\* is given
Unlimited(rec, response) ==
    CASE rec.strategy = "generic" ->
            parse_generic_feed(response, rec.last_fetched, None,
                               rec.start_date, rec.end_date)
      [] rec.strategy = "json_feed" ->
            parse_json_feed(response, rec.last_fetched, None,
                            rec.start_date, rec.end_date)
      [] OTHER ->
            parse_html_feed(rec.article_selector, response, rec.last_fetched, None,
                            rec.start_date, rec.end_date)

TruncatedFirst(rec) ==
    /\ Len(rec.entries) <= rec.max_entries
    /\ rec.entries = Unlimited(rec, FirstN(rec.response, rec.max_entries))

\* C24 as stated: whenever max_entries = N is given, the list returned has at
\* most N entries and is what the extractor returns for the first N items of
\* the payload.
C24_TruncationFirst ==
    \A c \in Callers :
        (pf[c].pc = "parsed" /\ pf[c].max_entries # None) => TruncatedFirst(pf[c])

\* C24 for N >= 1: max_entries = 0 is read as no limit (`if max_entries:`)
C24_TruncationFirstPositive ==
    \A c \in Callers :
        (pf[c].pc = "parsed" /\ pf[c].max_entries # None /\ pf[c].max_entries >= 1)
            => TruncatedFirst(pf[c])

\* with max_entries = 1 the first item was filtered out and the second, which
\* passes the filters, was not returned
C24_Witness ==
    \E c \in Callers :
        /\ pf[c].pc = "parsed" /\ pf[c].strategy = "generic"
        /\ pf[c].max_entries = 1
        /\ Len(pf[c].response.items) >= 2
        /\ pf[c].entries = <<>>
        /\ Unlimited(pf[c], pf[c].response) # <<>>

\* C25: no step removes a stored article or changes its URL or its
\* created_at: the table only grows.
C25_NeverDeleted ==
    [][/\ Len(articles') >= Len(articles)
       /\ \A i \in 1..Len(articles) :
             /\ articles'[i].url = articles[i].url
             /\ articles'[i].created_at = articles[i].created_at]_vars

\* after the clock moved, a run has rewritten an article stored earlier and
\* added another one
C25_Witness ==
    \E c \in Callers :
        /\ pf[c].pc = "save"
        /\ Len(articles) > Len(pf[c].db0)
        /\ \E i \in 1..Len(pf[c].db0) :
              /\ articles[i] # pf[c].db0[i]
              /\ articles[i].created_at < now

\* the payload of feed 1 holds an item with this URL
InFeed(url) ==
    /\ upstream[1].ok
    /\ \E k \in 1..Len(upstream[1].items) : upstream[1].items[k].link = url

\* C26: under repeated scheduled runs of a feed whose fetches succeed, an
\* item with a URL that is in the feed's payload and stays there is
\* eventually stored as an article.
C26_NoEntryMissed ==
    \A url \in {"u1", "u2"} : InFeed(url) ~> HasUrl(articles, url)

\* C27: the created count a run takes from its insert is the number of rows
\* the insert added to the Article table.
C27_CreatedCountExact ==
    [][\A c \in DOMAIN pf :
          (pf[c].pc = "create" /\ pf'[c].pc = "update") =>
              pf'[c].new_count = Len(articles') - Len(articles)]_vars

\* C28: no step changes the url or the feed of a stored article, an article
\* matched by an entry of another feed included.
C28_OwnershipStable ==
    [][\A i \in 1..Len(articles) :
          /\ articles'[i].url = articles[i].url
          /\ articles'[i].feed = articles[i].feed]_vars

\* a run of one feed has rewritten an article that belongs to another feed
C28_Witness ==
    \E c \in Callers :
        /\ pf[c].pc = "save"
        /\ \E i \in 1..Len(pf[c].db0) :
              /\ articles[i] # pf[c].db0[i]
              /\ articles[i].feed # pf[c].feeds[pf[c].i].id

\* C29: an attempt of fetch_feed on a feed that is not Due ends the task
\* with the skipped result and leaves the articles and the feeds as they
\* were; an attempt on an id that is not in the table ends the task with the
\* not-found result at its first attempt.
C29_NotDueSkip ==
    [][\A k \in 1..Len(tasks) :
          tasks'[k] # tasks[k] =>
              IF tasks[k].feed_id \in DOMAIN feeds
              THEN ~Due(feeds[tasks[k].feed_id], now) =>
                      /\ tasks'[k].state = "SUCCESS"
                      /\ tasks'[k].result = "skipped"
                      /\ articles' = articles
                      /\ feeds' = feeds
              ELSE /\ tasks'[k].state = "SUCCESS"
                   /\ tasks'[k].result = "not_found"
                   /\ tasks'[k].attempts = 1]_vars

\* C30: no step of a process_feeds call made with update_last_fetched =
\* False changes a feed row, whatever the extraction gave.
C30_ManualLeavesSchedule ==
    [][\A c \in Callers :
          (/\ ~pf[c].update_last_fetched
           /\ pf[c].pc \in {"loop", "create", "update", "save"}
           /\ pf'[c] # pf[c])
          => feeds' = feeds]_vars

\* a call made with update_last_fetched = False has returned after adding an
\* article, and the feed it fetched has no last_fetched
C30_Witness ==
    \E c \in Callers :
        /\ pf[c].pc = "returned"
        /\ ~pf[c].update_last_fetched
        /\ \E k \in 1..Len(pf[c].details) :
              /\ ~pf[c].details[k].error
              /\ pf[c].details[k].added >= 1
              /\ feeds[pf[c].details[k].feed].last_fetched = None

====
